---- MODULE Spec2Model ----
(***************************************************************************)
(* Archivematica Storage Service: the REST resources of                     *)
(* storage_service/locations/api/resources.py (PackageResource and the     *)
(* _custom_endpoint wrapper) as a state machine over the Package and Event  *)
(* tables, the storage disk and the temporary directories.                  *)
(*                                                                         *)
(* Strings that the program slices (UUIDs, path components) are sequences   *)
(* of one-character strings; a path is a sequence of such components.       *)
(***************************************************************************)
EXTENDS Integers, Sequences, FiniteSets, TLC

\* ------------------------------------------------------------------ bounds
\* Most Event rows the model lets the Event table hold.
MaxEvents == 2
\* Most temporary directories the model lets exist at once.
MaxTempDirs == 2
\* The Spaces created in a run.
MaxSpaces == 3
\* Most file entries in the body of a move request.
MaxFiles == 3
\* Most segments in the path parameter of a browse request.
MaxSegments == 2

\* ------------------------------------------------------- program constants
\* Package.package_type values (models.Package, imported at resources.py:32).
AIP == "AIP"
AIC == "AIC"
DIP == "DIP"
TRANSFER == "transfer"
PACKAGE_TYPES == {AIP, AIC, DIP, TRANSFER}
PACKAGE_TYPE_CAN_DELETE == {AIP, AIC, TRANSFER}
PACKAGE_TYPE_CAN_EXTRACT == {AIP, AIC}

\* Package.status values.
UPLOADED == "UPLOADED"
VERIFIED == "VERIFIED"
DEL_REQ == "DEL_REQ"
DELETED == "DELETED"
FAIL == "FAIL"
PACKAGE_STATUSES == {UPLOADED, VERIFIED, DEL_REQ, DELETED, FAIL}
\* The status of a Package row that no successful store has updated.
DefaultStatus == FAIL

\* Event.event_type and Event.status values.
EVENT_DELETE == "DELETE"
SUBMITTED == "SUBMIT"
APPROVED == "APPROVE"
REJECTED == "REJECT"

\* Location.purpose values.
AIP_STORAGE == "AS"
DIP_STORAGE == "DS"
BACKLOG == "BL"

\* HTTP status codes of the responses.
HttpOk == 200
HttpCreated == 201
HttpAccepted == 202
HttpBadRequest == 400
HttpNotFound == 404
HttpMethodNotAllowed == 405
HttpServerError == 500

\* ------------------------------------------------------------ the fixtures
\* The identifiers of the two packages of the integration tests.
UUID_COMPRESSED ==
  <<"5","6","5","8","e","6","0","3","-","2","7","7","b","-","4","2","9","2","-",
    "9","b","5","8","-","2","0","b","f","2","6","1","c","8","f","8","8">>
UUID_UNCOMPRESSED ==
  <<"8","2","8","c","4","4","b","b","-","e","6","3","1","-","4","1","3","7","-",
    "8","6","3","8","-","b","d","a","4","4","3","4","2","1","8","d","c">>
UUIDS == {UUID_COMPRESSED, UUID_UNCOMPRESSED}

\* The sharded directories the tests expect for those identifiers.
EXPECTED_COMPRESSED_SHARDS ==
  << <<"5","6","5","8">>, <<"e","6","0","3">>, <<"2","7","7","b">>,
     <<"4","2","9","2">>, <<"9","b","5","8">>, <<"2","0","b","f">>,
     <<"2","6","1","c">>, <<"8","f","8","8">> >>
EXPECTED_UNCOMPRESSED_SHARDS ==
  << <<"8","2","8","c">>, <<"4","4","b","b">>, <<"e","6","3","1">>,
     <<"4","1","3","7">>, <<"8","6","3","8">>, <<"b","d","a","4">>,
     <<"4","3","4","2">>, <<"1","8","d","c">> >>

\* What lies at an origin path: a single compressed file, or a directory.
NAME_7Z == <<"a","i","p",".","7","z">>
NAME_DIR == <<"a","i","p","d","i","r">>
ORIGINS == { [name |-> NAME_7Z, is_dir |-> FALSE],
             [name |-> NAME_DIR, is_dir |-> TRUE] }
\* A file inside every package, and a relative path no package holds.
MEMBER == <<"m","e","t","s">>
NO_MEMBER == <<"n","o","n","e">>
RELATIVE_PATHS == {MEMBER, NO_MEMBER}

\* The Spaces and Locations of the deployment: a local filesystem and a
\* LOCKSS-style Space that stores packages in chunks.
SPACES ==
  [ fs     |-> [path |-> << <<"s","t","o","r","e">> >>, chunked |-> FALSE],
    lockss |-> [path |-> << <<"l","o","m">> >>,         chunked |-> TRUE] ]
LOCATIONS ==
  [ as_fs |-> [purpose |-> AIP_STORAGE, space |-> "fs",
               relative_path |-> << <<"a","i","p","s">> >>],
    ds_fs |-> [purpose |-> DIP_STORAGE, space |-> "fs",
               relative_path |-> << <<"d","i","p","s">> >>],
    bl_fs |-> [purpose |-> BACKLOG, space |-> "fs",
               relative_path |-> << <<"b","a","c","k","l","o","g">> >>],
    as_lockss |-> [purpose |-> AIP_STORAGE, space |-> "lockss",
               relative_path |-> << <<"a","u">> >>] ]
LOCATION_IDS == DOMAIN LOCATIONS
\* Where pointer files are kept (the Storage-Service-Internal location).
POINTER_ROOT == << <<"s","t","o","r","e">>, <<"p","o","i","n","t","e","r","s">> >>
\* The registered pipelines, and a pipeline UUID that is not registered.
PIPELINES == {"pipeline1"}
PIPELINE_VALUES == {"pipeline1", "unknown"}

\* The HTTP methods of the requests, and the bodies a deletion request
\* may carry: complete, one required field short, or not decodable.
METHODS == {"get", "post"}
REQUIRED_DELETE_FIELDS == {"event_reason", "pipeline", "user_id", "user_email"}
BODIES == {REQUIRED_DELETE_FIELDS, REQUIRED_DELETE_FIELDS \ {"user_email"}, {}}

VARIABLES
  packages,   \* the Package table: uuid -> row
  events,     \* the Event table: a sequence of rows, the index is the key
  disk,       \* the paths that exist on the storage backends
  tempDirs,   \* the temporary directories that exist (numbered from 1)
  resp,       \* the response of the last request served
  proc,       \* the requests in flight, for the concurrent runs
  calls,      \* what the last download, browse or move request called, in order
  replicas,   \* the replication attempts: <<uuid, location>> -> their result
  spaces,     \* the Space table: a sequence of rows, the index is the key
  protocolSpaces,  \* the protocol records: a sequence of rows, each naming its Space
  request     \* the Location and the body of the last move or browse request

vars == <<packages, events, disk, tempDirs, resp, proc,
          calls, replicas, spaces, protocolSpaces, request>>

\* ----------------------------------------------------------------- paths
\* Location.full_path: the Space's path joined with the Location's.
LocationFullPath(loc) ==
  SPACES[LOCATIONS[loc].space].path \o LOCATIONS[loc].relative_path

\* Package.full_path: the Location's full path joined with current_path.
PackageFullPath(row) == LocationFullPath(row.current_location) \o row.current_path

\* A mutant of uuid_to_path: the hyphens are kept.
uuid_to_path_keeps_hyphens(uuid) ==
  [k \in 1..(Len(uuid) \div 4) |-> SubSeq(uuid, 4 * k - 3, 4 * k)]

\* utils.uuid_to_path: the hyphens removed, the digits cut into groups of 4.
uuid_to_path(uuid) ==
  LET digits == SelectSeq(uuid, LAMBDA c : c # "-")
  IN  [k \in 1..((Len(digits) + 3) \div 4) |->
         SubSeq(digits, 4 * k - 3, IF 4 * k <= Len(digits) THEN 4 * k ELSE Len(digits))]

\* Package.full_pointer_file_path: <<>> stands for None.
PointerFilePath(uuid) == POINTER_ROOT \o uuid_to_path(uuid) \o << uuid >>

\* The deletion requests that run concurrently.
PROCS == {"r1", "r2"}
\* ------------------------------------------------------------- responses
Response(op, uuid, code, kind) ==
  [op |-> op, uuid |-> uuid, code |-> code, kind |-> kind]

NoResponse == Response("none", <<>>, HttpOk, "none")

\* A request that has not been received yet.
IdleProc == [pc |-> "idle", uuid |-> << >>, obj |-> << >>, resp |-> NoResponse]

Init ==
  /\ packages = << >>
  /\ events = << >>
  /\ disk = {}
  /\ tempDirs = {}
  /\ resp = NoResponse
  /\ proc = [p \in PROCS |-> IdleProc]
  /\ calls = << >>
  /\ replicas = << >>
  /\ spaces = << >>
  /\ protocolSpaces = << >>
  /\ request = << >>

\* ------------------------------------------------- the endpoint wrapper
\* A mutant of CustomEndpoint: the required fields are checked before the
\* object is looked up.
CustomEndpointFieldsFirst(method, expected_methods, uuid, body, required_fields) ==
  IF method \notin expected_methods THEN "MethodNotAllowed"
  ELSE IF ~(required_fields \subseteq body) THEN "BadRequest"
  ELSE IF uuid \notin DOMAIN packages THEN "NotFound"
  ELSE "call"

\* _custom_endpoint's wrapper: the checks before the handler is called.
\* "call" means the handler runs; any other value is the response returned
\* instead. is_authenticated and throttle_check pass every request here
\* (Meta.authentication = Authentication(), no throttle).  A body that
\* cannot be decoded is the empty body (deserialized = []).
CustomEndpoint(method, expected_methods, uuid, body, required_fields) ==
  IF method \notin expected_methods THEN "MethodNotAllowed"
  ELSE IF uuid \notin DOMAIN packages THEN "NotFound"
  ELSE IF ~(required_fields \subseteq body) THEN "BadRequest"
  ELSE "call"

\* The response the wrapper returns when it does not call the handler.
WrapperResponse(op, uuid, verdict) ==
  Response(op, uuid,
           CASE verdict = "MethodNotAllowed" -> HttpMethodNotAllowed
             [] verdict = "NotFound" -> HttpNotFound
             [] OTHER -> HttpBadRequest,
           verdict)

\* utils.download_file_stream(filepath, temp_dir): streams the file when it
\* exists and answers NotFound when it does not; a temporary directory
\* handed to it is removed with the response. temp_dir = 0 is no directory.
DownloadFileStream(found, temp_dir, dirs) ==
  [code |-> IF found THEN HttpOk ELSE HttpNotFound,
   kind |-> IF found THEN "stream" ELSE "NotFound",
   dirs |-> dirs \ {temp_dir}]

\* tempfile.mkdtemp: a directory that does not exist yet.
NewTempDir(dirs) == CHOOSE d \in 1..(Cardinality(dirs) + 1) : d \notin dirs

\* -------------------------------------------------------------- intake
\* The paths a stored package occupies: its own and, for a directory, the
\* files in it.
StoredPaths(row) ==
  {PackageFullPath(row)}
    \cup (IF row.is_dir THEN {PackageFullPath(row) \o <<MEMBER>>} ELSE {})

\* Package.store_aip / Package.backlog_transfer, when the move succeeds: the
\* package lies at <location>/<sharded uuid>/<name>, its status is Uploaded,
\* and a single-file package gets a pointer file.
StoredRow(row, uuid) ==
  [row EXCEPT !.current_path = uuid_to_path(uuid) \o row.current_path,
              !.status = UPLOADED,
              !.pointer_file_path =
                 IF row.is_dir THEN << >> ELSE PointerFilePath(uuid)]

\* The first branch of obj_create (line 435): store_aip is called.
StoreAipBranch(package_type, purpose) ==
  /\ package_type \in {AIP, AIC, DIP}
  /\ purpose \in {AIP_STORAGE, DIP_STORAGE}

\* The second branch (line 438): backlog_transfer is called. The operands
\* of "in" are the strings themselves; among the type and purpose codes
\* only the value itself is a substring.
BacklogBranch(package_type, purpose) ==
  /\ package_type = TRANSFER
  /\ purpose = BACKLOG

\* PackageResource.obj_create: the row is saved first (super().obj_create),
\* then the package is moved when its type and the purpose of its location
\* pair; an exception of the move leaves the saved row behind.
ObjCreate(uuid, package_type, loc, origin, move_ok) ==
  /\ uuid \notin DOMAIN packages
  /\ LET row == [package_type |-> package_type,
                 current_location |-> loc,
                 current_path |-> << origin.name >>,
                 is_dir |-> origin.is_dir,
                 status |-> DefaultStatus,
                 pointer_file_path |-> << >>]
         saved == packages @@ (uuid :> row)
         purpose == LOCATIONS[loc].purpose
         moves == StoreAipBranch(package_type, purpose)
                    \/ BacklogBranch(package_type, purpose)
     IN  IF moves /\ move_ok
         THEN /\ packages' = [saved EXCEPT ![uuid] = StoredRow(row, uuid)]
              /\ disk' = disk \cup StoredPaths(StoredRow(row, uuid))
                               \cup (IF origin.is_dir THEN {}
                                     ELSE {PointerFilePath(uuid)})
              /\ resp' = Response("obj_create", uuid, HttpCreated, "created")
         ELSE IF moves
         THEN /\ packages' = saved
              /\ disk' = disk
              /\ resp' = Response("obj_create", uuid, HttpServerError, "exception")
         ELSE /\ packages' = saved
              /\ disk' = disk
              /\ resp' = Response("obj_create", uuid, HttpCreated, "created")
  /\ UNCHANGED <<events, tempDirs, proc, calls, replicas, spaces, protocolSpaces, request>>

\* A mutant of PointerFileRequest: a missing pointer file is an error.
PointerFileRequestFails(method, uuid) ==
  LET verdict == CustomEndpoint(method, {"get"}, uuid, {}, {})
  IN  /\ resp' = IF verdict # "call"
                 THEN WrapperResponse("pointer_file_request", uuid, verdict)
                 ELSE IF packages[uuid].pointer_file_path \in disk
                 THEN Response("pointer_file_request", uuid, HttpOk, "stream")
                 ELSE Response("pointer_file_request", uuid, HttpServerError,
                               "exception")
      /\ UNCHANGED <<packages, events, disk, tempDirs, proc, calls, replicas, spaces, protocolSpaces, request>>

\* PackageResource.pointer_file_request: whatever download_file_stream
\* answers for the package's pointer file path.
PointerFileRequest(method, uuid) ==
  LET verdict == CustomEndpoint(method, {"get"}, uuid, {}, {})
  IN  /\ resp' = IF verdict # "call"
                 THEN WrapperResponse("pointer_file_request", uuid, verdict)
                 ELSE LET pointer_path == packages[uuid].pointer_file_path
                          r == DownloadFileStream(pointer_path \in disk, 0,
                                                  tempDirs)
                      IN  Response("pointer_file_request", uuid, r.code, r.kind)
      /\ UNCHANGED <<packages, events, disk, tempDirs, proc, calls, replicas, spaces, protocolSpaces, request>>

\* ------------------------------------------------- download and extract
\* A call of the models or of utils: its name and the path it is about.
Call(op, path) == [op |-> op, path |-> path]

\* Where compress_package builds the copy, inside its temporary directory.
COMPRESSED_COPY == << <<"t","m","p">>, <<"c","o","p","y">> >>

\* Package.get_download_path: a chunked Space serves the chunk; any other
\* Space raises StorageException (chunking is not supported).
GetDownloadPath(row) ==
  IF SPACES[LOCATIONS[row.current_location].space].chunked
  THEN [raised |-> FALSE, path |-> PackageFullPath(row)]
  ELSE [raised |-> TRUE, path |-> << >>]

\* Package.compress_package: the stored file of a single-file package, or a
\* compressed copy built in a new temporary directory. temp_dir = 0 is None.
CompressPackage(row, dirs) ==
  IF row.is_dir /\ PackageFullPath(row) \in disk
  THEN [path |-> COMPRESSED_COPY, temp_dir |-> NewTempDir(dirs)]
  ELSE [path |-> PackageFullPath(row), temp_dir |-> 0]

\* A mutant of DownloadSource: the compressed copy is made without asking
\* for the download path first.
DownloadSourceAlwaysCompressed(row, dirs) ==
  LET c == CompressPackage(row, dirs)
  IN  [path |-> c.path, temp_dir |-> c.temp_dir,
       found |-> c.temp_dir # 0 \/ c.path \in disk,
       calls |-> << Call("compress_package", PackageFullPath(row)) >>]

\* The try / except of download_request: get_download_path and, when it
\* raises StorageException, compress_package.
DownloadSource(row, dirs) ==
  LET g == GetDownloadPath(row)
      c == CompressPackage(row, dirs)
  IN  IF ~g.raised
      THEN [path |-> g.path, temp_dir |-> 0, found |-> g.path \in disk,
            calls |-> << Call("get_download_path", PackageFullPath(row)) >>]
      ELSE [path |-> c.path, temp_dir |-> c.temp_dir,
            found |-> c.temp_dir # 0 \/ c.path \in disk,
            calls |-> << Call("get_download_path", PackageFullPath(row)),
                         Call("compress_package", PackageFullPath(row)) >>]

\* PackageResource.download_request: the path comes from get_download_path
\* or, on StorageException, from compress_package; download_file_stream is
\* called with the path alone, so the temporary directory stays.
DownloadRequest(method, uuid) ==
  LET verdict == CustomEndpoint(method, {"get"}, uuid, {}, {})
  IN  /\ IF verdict # "call"
         THEN /\ resp' = WrapperResponse("download_request", uuid, verdict)
              /\ tempDirs' = tempDirs
              /\ calls' = << >>
         ELSE LET src == DownloadSource(packages[uuid], tempDirs)
                  made == IF src.temp_dir = 0 THEN tempDirs
                          ELSE tempDirs \cup {src.temp_dir}
                  r == DownloadFileStream(src.found, 0, made)
              IN  /\ Cardinality(made) <= MaxTempDirs
                  /\ resp' = Response("download_request", uuid, r.code, r.kind)
                  /\ tempDirs' = r.dirs
                  /\ calls' = Append(src.calls, Call("download_file_stream", src.path))
      /\ UNCHANGED <<packages, events, disk, proc, replicas, spaces, protocolSpaces, request>>

\* Where extract_file puts the extracted file, inside its temporary
\* directory.
EXTRACTED_FILE == << <<"t","m","p">>, MEMBER >>

\* PackageResource.extract_file_request: the local file when it exists,
\* else (for the types that can be extracted) the file extract_file puts in
\* a new temporary directory, else the empty path; download_file_stream
\* gets the path and the temporary directory. extract_file raises
\* MemberNotFound when the archive does not hold the file.
ExtractFileRequest(method, uuid, relative_path_to_file) ==
  LET verdict == CustomEndpoint(method, {"get"}, uuid, {}, {})
  IN  /\ IF verdict # "call"
         THEN /\ resp' = WrapperResponse("extract_file_request", uuid, verdict)
              /\ tempDirs' = tempDirs
              /\ calls' = << >>
         ELSE LET package == packages[uuid]
                  local_path == PackageFullPath(package) \o <<relative_path_to_file>>
                  in_archive == /\ PackageFullPath(package) \in disk
                                /\ ~package.is_dir
                                /\ relative_path_to_file = MEMBER
              IN  IF local_path \in disk
                  THEN LET r == DownloadFileStream(TRUE, 0, tempDirs)
                       IN  /\ resp' = Response("extract_file_request", uuid,
                                               r.code, r.kind)
                           /\ tempDirs' = r.dirs
                           /\ calls' = << Call("download_file_stream", local_path) >>
                  ELSE IF package.package_type \in PACKAGE_TYPE_CAN_EXTRACT
                  THEN IF in_archive
                       THEN LET temp_dir == NewTempDir(tempDirs)
                                r == DownloadFileStream(TRUE, temp_dir,
                                                        tempDirs \cup {temp_dir})
                            IN  /\ resp' = Response("extract_file_request", uuid,
                                                    r.code, r.kind)
                                /\ tempDirs' = r.dirs
                                /\ calls' = << Call("extract_file", local_path),
                                               Call("download_file_stream",
                                                    EXTRACTED_FILE) >>
                       ELSE /\ resp' = Response("extract_file_request", uuid,
                                                HttpServerError, "MemberNotFound")
                            /\ tempDirs' = tempDirs
                            /\ calls' = << Call("extract_file", local_path) >>
                  ELSE LET r == DownloadFileStream(FALSE, 0, tempDirs)
                       IN  /\ resp' = Response("extract_file_request", uuid,
                                               r.code, r.kind)
                           /\ tempDirs' = r.dirs
                           /\ calls' = << Call("download_file_stream", << >>) >>
      /\ UNCHANGED <<packages, events, disk, proc, replicas, spaces, protocolSpaces, request>>

\* ------------------------------------------------------------- deletion
\* A mutant of ExistingRequests: the package of the events is not looked at.
ExistingRequestsOfOthers(evts, uuid) ==
  Cardinality({i \in 1..Len(evts) :
                 /\ evts[i].package # uuid
                 /\ evts[i].event_type = EVENT_DELETE
                 /\ evts[i].status = SUBMITTED})

\* Event.objects.filter(package=package, event_type=Event.DELETE,
\* status=Event.SUBMITTED).count()
ExistingRequests(evts, uuid) ==
  Cardinality({i \in 1..Len(evts) :
                 /\ evts[i].package = uuid
                 /\ evts[i].event_type = EVENT_DELETE
                 /\ evts[i].status = SUBMITTED})

\* A mutant of NoExistingRequest: one request too many is let through.
NoExistingRequestOffByOne(existing_requests) == existing_requests <= 1

\* The test of line 457.
NoExistingRequest(existing_requests) == existing_requests < 1

\* A mutant of DeleteRequestEvent: the status is read after it is updated.
DeleteRequestEventAfterUpdate(uuid, package_status) ==
  [package |-> uuid, event_type |-> EVENT_DELETE, status |-> SUBMITTED,
   store_data |-> DEL_REQ]

\* The Event of lines 458-461: store_data is the package's status.
DeleteRequestEvent(uuid, package_status) ==
  [package |-> uuid, event_type |-> EVENT_DELETE, status |-> SUBMITTED,
   store_data |-> package_status]

\* A mutant of DeleteVerdict: the package type is not looked at.
DeleteVerdictAnyType(method, uuid, body, pipeline) ==
  LET verdict == CustomEndpoint(method, {"post"}, uuid, body,
                                REQUIRED_DELETE_FIELDS)
  IN  IF verdict # "call" THEN verdict
      ELSE IF pipeline \notin PIPELINES THEN "exception"
      ELSE "call"

\* What the wrapper and the handler's first lines (448-452) answer before
\* the events are looked at: "call" when the request gets that far.
\* Pipeline.objects.get raises when the pipeline is not registered.
DeleteVerdict(method, uuid, body, pipeline) ==
  LET verdict == CustomEndpoint(method, {"post"}, uuid, body,
                                REQUIRED_DELETE_FIELDS)
  IN  IF verdict # "call" THEN verdict
      ELSE IF packages[uuid].package_type \notin PACKAGE_TYPE_CAN_DELETE
      THEN "NotDeletable"
      ELSE IF pipeline \notin PIPELINES THEN "exception"
      ELSE "call"

\* The response to a deletion request that does not get to the events.
DeleteRefusal(uuid, verdict) ==
  CASE verdict = "NotDeletable" ->
         Response("delete_aip_request", uuid, HttpMethodNotAllowed, verdict)
    [] verdict = "exception" ->
         Response("delete_aip_request", uuid, HttpServerError, verdict)
    [] OTHER -> WrapperResponse("delete_aip_request", uuid, verdict)

\* PackageResource.delete_aip_request, served alone from start to end.
DeleteAipRequest(method, uuid, body, pipeline) ==
  LET verdict == DeleteVerdict(method, uuid, body, pipeline)
  IN  /\ IF verdict # "call"
         THEN /\ resp' = DeleteRefusal(uuid, verdict)
              /\ UNCHANGED <<packages, events>>
         ELSE IF NoExistingRequest(ExistingRequests(events, uuid))
         THEN /\ Len(events) < MaxEvents
              /\ events' = Append(events,
                             DeleteRequestEvent(uuid, packages[uuid].status))
              /\ packages' = [packages EXCEPT ![uuid].status = DEL_REQ]
              /\ resp' = Response("delete_aip_request", uuid, HttpAccepted,
                                  "created")
         ELSE /\ resp' = Response("delete_aip_request", uuid, HttpOk,
                                  "duplicate")
              /\ UNCHANGED <<packages, events>>
      /\ UNCHANGED <<disk, tempDirs, proc, calls, replicas, spaces, protocolSpaces, request>>

\* approve(event): the event is Approved, the package Deleted and its
\* bytes removed from the backend.
Approve(i) ==
  /\ i \in 1..Len(events)
  /\ events[i].status = SUBMITTED
  /\ LET uuid == events[i].package
     IN  /\ events' = [events EXCEPT ![i].status = APPROVED]
         /\ packages' = [packages EXCEPT ![uuid].status = DELETED]
         /\ disk' = disk \ (StoredPaths(packages[uuid])
                              \cup {packages[uuid].pointer_file_path})
         /\ resp' = Response("approve", uuid, HttpOk, "approved")
  /\ UNCHANGED <<tempDirs, proc, calls, replicas, spaces, protocolSpaces, request>>

\* reject(event): the event is Rejected and the package gets back the
\* status the event recorded.
Reject(i) ==
  /\ i \in 1..Len(events)
  /\ events[i].status = SUBMITTED
  /\ LET uuid == events[i].package
     IN  /\ events' = [events EXCEPT ![i].status = REJECTED]
         /\ packages' = [packages EXCEPT ![uuid].status = events[i].store_data]
         /\ resp' = Response("reject", uuid, HttpOk, "rejected")
  /\ UNCHANGED <<disk, tempDirs, proc, calls, replicas, spaces, protocolSpaces, request>>

\* The step Uploaded -> Verified of the package state machine.
Verify(uuid) ==
  /\ uuid \in DOMAIN packages
  /\ packages[uuid].status = UPLOADED
  /\ packages' = [packages EXCEPT ![uuid].status = VERIFIED]
  /\ resp' = Response("verify", uuid, HttpOk, "verified")
  /\ UNCHANGED <<events, disk, tempDirs, proc, calls, replicas, spaces, protocolSpaces, request>>

\* ------------------------------------- deletion requests, interleaved
\* delete_aip_request as the steps between which another request can run:
\* the wrapper loads the package (line 67), the handler counts the
\* Submitted events (455), saves the new Event (462) and saves the package
\* (466). Nothing in the handler locks the rows or opens a transaction.
DeleteBegin(p, method, uuid, body, pipeline) ==
  /\ proc[p].pc = "idle"
  /\ LET verdict == DeleteVerdict(method, uuid, body, pipeline)
     IN  proc' = [proc EXCEPT ![p] =
                    IF verdict # "call"
                    THEN [pc |-> "done", uuid |-> uuid, obj |-> << >>,
                          resp |-> DeleteRefusal(uuid, verdict)]
                    ELSE [pc |-> "count", uuid |-> uuid, obj |-> packages[uuid],
                          resp |-> NoResponse]]
  /\ UNCHANGED <<packages, events, disk, tempDirs, resp, calls, replicas, spaces, protocolSpaces, request>>

DeleteCount(p) ==
  /\ proc[p].pc = "count"
  /\ proc' = [proc EXCEPT ![p] =
                IF NoExistingRequest(ExistingRequests(events, proc[p].uuid))
                THEN [@ EXCEPT !.pc = "save_event"]
                ELSE [@ EXCEPT !.pc = "done",
                               !.resp = Response("delete_aip_request", @.uuid,
                                                 HttpOk, "duplicate")]]
  /\ UNCHANGED <<packages, events, disk, tempDirs, resp, calls, replicas, spaces, protocolSpaces, request>>

DeleteSaveEvent(p) ==
  /\ proc[p].pc = "save_event"
  /\ events' = Append(events,
                      DeleteRequestEvent(proc[p].uuid, proc[p].obj.status))
  /\ proc' = [proc EXCEPT ![p].pc = "save_package"]
  /\ UNCHANGED <<packages, disk, tempDirs, resp, calls, replicas, spaces, protocolSpaces, request>>

DeleteSavePackage(p) ==
  /\ proc[p].pc = "save_package"
  /\ packages' = [packages EXCEPT
                    ![proc[p].uuid] = [proc[p].obj EXCEPT !.status = DEL_REQ]]
  /\ proc' = [proc EXCEPT ![p].pc = "done",
                          ![p].resp = Response("delete_aip_request",
                                               proc[p].uuid, HttpAccepted,
                                               "created")]
  /\ UNCHANGED <<events, disk, tempDirs, resp, calls, replicas, spaces, protocolSpaces, request>>

\* ---------------------------------------------------------------- fixity
\* The files a bag may hold, the digests a file may have, and the
\* algorithm of the manifest. ABSENT: no such manifest entry, or no file.
FIXITY_FILES == {"a.txt", "b.txt"}
DIGESTS == {"X", "Y"}
ABSENT == "absent"
HASH_TYPE == "sha256"
\* The manifests (path -> expected digest) and what may be found on disk
\* (path -> digest of the file).
MANIFESTS == [FIXITY_FILES -> {"X", ABSENT}]
FILE_TABLES == [FIXITY_FILES -> DIGESTS \cup {ABSENT}]
\* The orders in which the check may visit the paths.
FILE_ORDERS == { << "a.txt", "b.txt" >>, << "b.txt", "a.txt" >> }

\* The failure kinds of the bag validation.
FileMissing == "FileMissing"
ChecksumMismatch == "ChecksumMismatch"
UnexpectedFile == "UnexpectedFile"

\* The kind of discrepancy of one path: "" when there is none.
FailureKind(expected, found) ==
  IF expected # ABSENT /\ found = ABSENT THEN FileMissing
  ELSE IF expected # ABSENT /\ found # expected THEN ChecksumMismatch
  ELSE IF expected = ABSENT /\ found # ABSENT THEN UnexpectedFile
  ELSE ""

\* Package.check_fixity: (success, failures, message). One failure for
\* each path in discrepancy, in the order visited; success when none of
\* them is a missing or a changed file.
CheckFixity(manifest, files, order) ==
  LET paths == SelectSeq(order, LAMBDA f : FailureKind(manifest[f], files[f]) # "")
      failures == [i \in 1..Len(paths) |->
                     [kind |-> FailureKind(manifest[paths[i]], files[paths[i]]),
                      path |-> paths[i],
                      expected |-> manifest[paths[i]],
                      found |-> files[paths[i]],
                      algorithm |-> HASH_TYPE]]
      success == \A i \in 1..Len(failures) : failures[i].kind = UnexpectedFile
  IN  [success |-> success, failures |-> failures,
       message |-> IF success THEN "" ELSE "invalid"]

\* str(failure).
FailureMessage(failure) == << failure.kind, failure.path >>

\* The entry of a failure in the missing and in the untracked list.
PathInfo(failure) == [path |-> failure.path, message |-> FailureMessage(failure)]

\* The entry of a failure in the changed list.
ChangedInfo(failure) ==
  [path |-> failure.path, expected |-> failure.expected, actual |-> failure.found,
   hash_type |-> failure.algorithm, message |-> FailureMessage(failure)]

\* The failures that are instances of one class, in their order.
FailuresOfKind(failures, kind) ==
  SelectSeq(failures, LAMBDA failure : failure.kind = kind)

\* The entries appended to the missing or to the untracked list.
PathInfos(failures, kind) ==
  [i \in 1..Len(FailuresOfKind(failures, kind)) |->
     PathInfo(FailuresOfKind(failures, kind)[i])]

\* The entries appended to the changed list.
ChangedInfos(failures) ==
  [i \in 1..Len(FailuresOfKind(failures, ChecksumMismatch)) |->
     ChangedInfo(FailuresOfKind(failures, ChecksumMismatch)[i])]

\* A mutant of FixityResponse: success is computed by the handler, which
\* wants no failure at all.
FixityResponseNoFailures(success, failures, message) ==
  [success |-> failures = << >>,
   message |-> message,
   failures |-> [files |->
     [missing |-> PathInfos(failures, FileMissing),
      changed |-> ChangedInfos(failures),
      untracked |-> PathInfos(failures, UnexpectedFile)]]]

\* A mutant of FixityResponse: an unexpected file is listed as missing.
FixityResponseUntrackedAsMissing(success, failures, message) ==
  [success |-> success,
   message |-> message,
   failures |-> [files |->
     [missing |-> PathInfos(failures, FileMissing)
                    \o PathInfos(failures, UnexpectedFile),
      changed |-> ChangedInfos(failures),
      untracked |-> << >>]]]

\* The response check_fixity_request builds: success and message as
\* check_fixity gave them, every failure appended to the list of its kind.
FixityResponse(success, failures, message) ==
  [success |-> success,
   message |-> message,
   failures |-> [files |->
     [missing |-> PathInfos(failures, FileMissing),
      changed |-> ChangedInfos(failures),
      untracked |-> PathInfos(failures, UnexpectedFile)]]]

\* PackageResource.check_fixity_request, for a bag with this manifest and
\* these files, visited in this order.
CheckFixityRequest(method, uuid, manifest, files, order) ==
  LET verdict == CustomEndpoint(method, {"get"}, uuid, {}, {})
  IN  /\ IF verdict # "call"
         THEN resp' = WrapperResponse("check_fixity_request", uuid, verdict)
         ELSE LET r == CheckFixity(manifest, files, order)
              IN  resp' = [op |-> "check_fixity_request", uuid |-> uuid,
                           code |-> HttpOk, kind |-> "fixity",
                           body |-> FixityResponse(r.success, r.failures, r.message)]
      /\ UNCHANGED <<packages, events, disk, tempDirs, proc,
                     calls, replicas, spaces, protocolSpaces, request>>

\* ----------------------------------------------------------- replication
\* The replicator Locations, by their full path: one in the S3 Space of
\* the tests (bucket AIPStorage, relative path aips), one on the local
\* filesystem.
RP_LOCATIONS ==
  [ rp_s3 |-> << <<"A","I","P","S","t","o","r","a","g","e">>, <<"a","i","p","s">> >>,
    rp_fs |-> << <<"s","t","o","r","e">>, <<"r","e","p","l","i","c","a">> >> ]
RP_LOCATION_IDS == DOMAIN RP_LOCATIONS
\* Location.replicators: the AIP store on the local filesystem replicates
\* to both.
REPLICATORS ==
  [loc \in LOCATION_IDS |-> IF loc = "as_fs" THEN RP_LOCATION_IDS ELSE {}]

\* The results of a replication attempt.
REPLICA_OK == "ok"
REPLICA_FAILED == "failed"

\* The paths of the copy of a package in a replicator Location: the paths
\* the package has in its own Location, under the replicator's root.
ReplicaPaths(row, target) ==
  LET root == LocationFullPath(row.current_location)
  IN  {RP_LOCATIONS[target] \o SubSeq(p, Len(root) + 1, Len(p)) : p \in StoredPaths(row)}

\* A mutant of Replicate: a failed copy takes the primary store back.
ReplicateRollsBack(uuid, target, copy_ok) ==
  /\ uuid \in DOMAIN packages
  /\ LET row == packages[uuid]
     IN  /\ row.package_type = AIP
         /\ row.status = UPLOADED
         /\ target \in REPLICATORS[row.current_location]
         /\ << uuid, target >> \in DOMAIN replicas
              => replicas[<< uuid, target >>] = REPLICA_FAILED
         /\ replicas' = [k \in DOMAIN replicas \cup {<< uuid, target >>} |->
                           IF k = << uuid, target >>
                           THEN IF copy_ok THEN REPLICA_OK ELSE REPLICA_FAILED
                           ELSE replicas[k]]
         /\ disk' = IF copy_ok THEN disk \cup ReplicaPaths(row, target)
                    ELSE disk \ StoredPaths(row)
         /\ packages' = IF copy_ok THEN packages
                        ELSE [packages EXCEPT ![uuid].status = FAIL]
  /\ UNCHANGED <<events, tempDirs, resp, proc, calls, spaces, protocolSpaces, request>>

\* One copy of the replication fan-out: a stored AIP is copied to one of
\* the replicators of its Location, after the store has answered. The
\* attempt is recorded; a failed copy leaves nothing at the target and may
\* be tried again.
Replicate(uuid, target, copy_ok) ==
  /\ uuid \in DOMAIN packages
  /\ LET row == packages[uuid]
     IN  /\ row.package_type = AIP
         /\ row.status = UPLOADED
         /\ target \in REPLICATORS[row.current_location]
         /\ << uuid, target >> \in DOMAIN replicas
              => replicas[<< uuid, target >>] = REPLICA_FAILED
         /\ replicas' = [k \in DOMAIN replicas \cup {<< uuid, target >>} |->
                           IF k = << uuid, target >>
                           THEN IF copy_ok THEN REPLICA_OK ELSE REPLICA_FAILED
                           ELSE replicas[k]]
         /\ disk' = IF copy_ok THEN disk \cup ReplicaPaths(row, target) ELSE disk
  /\ UNCHANGED <<packages, events, tempDirs, resp, proc, calls, spaces, protocolSpaces, request>>

\* ------------------------------------------------------------------ spaces
\* PROTOCOL: the fields the protocol record of each access protocol has.
S3_FIELDS == {"endpoint_url", "access_key_id", "secret_access_key", "region", "bucket"}
PROTOCOL == [ S3 |-> [fields |-> S3_FIELDS], FS |-> [fields |-> {}] ]

\* The data of the Space creation requests. Each holds a path; it names
\* S3, the local filesystem, a protocol that is not declared, or none; it
\* carries all the S3 fields, all but the bucket, or none of them, and
\* possibly a key that no protocol declares.
NO_PROTOCOL == "none"
ACCESS_PROTOCOLS == {"S3", "FS", "FTP", NO_PROTOCOL}
SPACE_PATHS == {"", "/mnt"}
S3_DATA ==
  [endpoint_url |-> "http://minio:9000", access_key_id |-> "minio",
   secret_access_key |-> "minio123", region |-> "planet-earth",
   bucket |-> "AIPStorage"]
FIELD_SETS == {S3_FIELDS, S3_FIELDS \ {"bucket"}, {}}
UNDECLARED_KEY == "comment"

SpaceData(access_protocol, path, fields, extra) ==
  [key \in {"path"} \cup fields
             \cup (IF access_protocol = NO_PROTOCOL THEN {} ELSE {"access_protocol"})
             \cup (IF extra THEN {UNDECLARED_KEY} ELSE {}) |->
     IF key = "path" THEN path
     ELSE IF key = "access_protocol" THEN access_protocol
     ELSE IF key = UNDECLARED_KEY THEN "x"
     ELSE S3_DATA[key]]

SPACE_REQUESTS ==
  {SpaceData(access_protocol, path, fields, extra) :
     access_protocol \in ACCESS_PROTOCOLS, path \in SPACE_PATHS,
     fields \in FIELD_SETS, extra \in BOOLEAN}

\* The response to a Space request: uuid is the key of the Space, 0 if none.
SpaceResponse(op, key, code, kind, data) ==
  [op |-> op, uuid |-> key, code |-> code, kind |-> kind, data |-> data]

\* A mutant of SpaceObjCreate: the Space is saved before the protocol and
\* its fields are looked up.
SpaceObjCreateSavesFirst(data, form_ok) ==
  /\ Len(spaces) < MaxSpaces
  /\ IF ~form_ok
     THEN /\ resp' = SpaceResponse("space_obj_create", 0, HttpBadRequest,
                                   "BadRequest", << >>)
          /\ UNCHANGED <<spaces, protocolSpaces, request>>
     ELSE /\ spaces' = Append(spaces,
                         [access_protocol |->
                            IF "access_protocol" \in DOMAIN data
                            THEN data["access_protocol"] ELSE NO_PROTOCOL,
                          path |-> data["path"]])
          /\ IF /\ "access_protocol" \in DOMAIN data
                /\ data["access_protocol"] \in DOMAIN PROTOCOL
                /\ PROTOCOL[data["access_protocol"]].fields \subseteq DOMAIN data
             THEN /\ protocolSpaces' =
                       Append(protocolSpaces,
                              [space |-> Len(spaces) + 1,
                               fields |-> [key \in PROTOCOL[data["access_protocol"]].fields
                                             |-> data[key]]])
                  /\ resp' = SpaceResponse("space_obj_create", Len(spaces) + 1,
                                           HttpCreated, "created", << >>)
             ELSE /\ protocolSpaces' = protocolSpaces
                  /\ resp' = SpaceResponse("space_obj_create", 0, HttpServerError,
                                           "KeyError", << >>)
  /\ UNCHANGED <<packages, events, disk, tempDirs, proc, calls, replicas, request>>

\* SpaceResource.obj_create: the protocol, its declared fields and their
\* values are read from the data (a KeyError ends the request); then the
\* Space is validated and saved (super().obj_create), then the protocol
\* record is created with the declared fields.
SpaceObjCreate(data, form_ok) ==
  /\ Len(spaces) < MaxSpaces
  /\ IF \/ "access_protocol" \notin DOMAIN data
        \/ data["access_protocol"] \notin DOMAIN PROTOCOL
        \/ ~(PROTOCOL[data["access_protocol"]].fields \subseteq DOMAIN data)
     THEN /\ resp' = SpaceResponse("space_obj_create", 0, HttpServerError,
                                   "KeyError", << >>)
          /\ UNCHANGED <<spaces, protocolSpaces, request>>
     ELSE IF ~form_ok
     THEN /\ resp' = SpaceResponse("space_obj_create", 0, HttpBadRequest,
                                   "BadRequest", << >>)
          /\ UNCHANGED <<spaces, protocolSpaces, request>>
     ELSE LET access_protocol == data["access_protocol"]
              keep_fields == PROTOCOL[access_protocol].fields
              fields_dict == [key \in keep_fields |-> data[key]]
          IN  /\ spaces' = Append(spaces, [access_protocol |-> access_protocol,
                                           path |-> data["path"]])
              /\ protocolSpaces' = Append(protocolSpaces,
                                          [space |-> Len(spaces) + 1,
                                           fields |-> fields_dict])
              /\ resp' = SpaceResponse("space_obj_create", Len(spaces) + 1,
                                       HttpCreated, "created", << >>)
  /\ UNCHANGED <<packages, events, disk, tempDirs, proc, calls, replicas, request>>

\* SpaceResource.dehydrate, serving the detail of a Space: the fields of
\* the Space and, when its protocol record exists, the declared fields of
\* that record.
SpaceDehydrate(key) ==
  /\ key \in 1..Len(spaces)
  /\ LET space == spaces[key]
         records == {i \in 1..Len(protocolSpaces) : protocolSpaces[i].space = key}
         added_fields == IF records = {} THEN << >>
                         ELSE protocolSpaces[CHOOSE i \in records : TRUE].fields
     IN  resp' = SpaceResponse("space_get_detail", key, HttpOk, "detail",
                               [k \in {"access_protocol", "path"}
                                        \cup DOMAIN added_fields |->
                                  IF k \in DOMAIN added_fields THEN added_fields[k]
                                  ELSE space[k]])
  /\ UNCHANGED <<packages, events, disk, tempDirs, proc, calls, replicas,
                 spaces, protocolSpaces, request>>

\* ------------------------------------------------------------ moving files
\* A Location uuid no Location has.
NO_LOCATION == "nowhere"
\* None, a missing key and the empty string: all of them false in all([...]).
NONE == << >>
\* The entries of 'files': two with a source and a destination, one
\* without a destination, one without a source.
FILE_ENTRIES ==
  { [source |-> << <<"a">> >>, destination |-> << <<"x">> >>],
    [source |-> << <<"b">> >>, destination |-> << <<"y">> >>],
    [source |-> << <<"a">> >>, destination |-> NONE],
    [source |-> NONE, destination |-> << <<"y">> >>] }
FILE_LISTS == UNION {[1..k -> FILE_ENTRIES] : k \in 0..MaxFiles}
\* The bodies of the move requests: with the three required fields (the
\* origin Location being one that exists or not), or without 'files'.
MOVE_BODIES ==
  { [origin_location |-> o, pipeline |-> "pipeline1", files |-> f] :
      o \in {"bl_fs", NO_LOCATION}, f \in FILE_LISTS }
    \cup { [origin_location |-> "bl_fs", pipeline |-> "pipeline1"] }

\* A call of a Space: its name, the Space and the paths it is given.
SpaceCall(op, space, source_path, destination_path) ==
  [op |-> op, space |-> space,
   source_path |-> source_path, destination_path |-> destination_path]

\* The four calls post_detail makes for one entry.
MoveCalls(sip_file, origin_location, destination_location) ==
  LET source_path == LOCATIONS[origin_location].relative_path \o sip_file.source
      destination_path ==
        LOCATIONS[destination_location].relative_path \o sip_file.destination
      origin_space == LOCATIONS[origin_location].space
      destination_space == LOCATIONS[destination_location].space
  IN  << SpaceCall("move_to_storage_service", origin_space,
                   source_path, destination_path),
         SpaceCall("post_move_to_storage_service", origin_space, NONE, NONE),
         SpaceCall("move_from_storage_service", destination_space,
                   destination_path, destination_path),
         SpaceCall("post_move_from_storage_service", destination_space,
                   NONE, NONE) >>

\* A mutant of MoveFiles: an entry without a source or a destination is
\* passed over and the entries after it are moved.
MoveFilesSkipping(files, origin_location, destination_location) ==
  LET whole == SelectSeq(files, LAMBDA f : f.source # NONE /\ f.destination # NONE)
      Four(i) == MoveCalls(whole[(i + 3) \div 4], origin_location,
                           destination_location)[((i - 1) % 4) + 1]
  IN  [calls |-> [i \in 1..(4 * Len(whole)) |-> Four(i)],
       returned |-> IF Len(whole) = Len(files) THEN "moved" ELSE "HttpBadRequest"]

\* The loop of post_detail from entry i on, after the calls made so far:
\* the four calls for an entry that has both paths, the return at the
\* first entry that has not.
RECURSIVE MoveLoop(_, _, _, _, _)
MoveLoop(files, i, made, origin_location, destination_location) ==
  IF i > Len(files) THEN [calls |-> made, returned |-> "moved"]
  ELSE IF files[i].source # NONE /\ files[i].destination # NONE
  THEN MoveLoop(files, i + 1,
                made \o MoveCalls(files[i], origin_location, destination_location),
                origin_location, destination_location)
  ELSE [calls |-> made, returned |-> "HttpBadRequest"]

\* for sip_file in files: ...
MoveFiles(files, origin_location, destination_location) ==
  MoveLoop(files, 1, << >>, origin_location, destination_location)

\* Space.move_from_storage_service: the file is put at the destination
\* path in the Space.
MovedPaths(cs) ==
  {SPACES[cs[i].space].path \o cs[i].destination_path :
     i \in {j \in 1..Len(cs) : cs[j].op = "move_from_storage_service"}}

\* LocationResource.post_detail. The two HttpBadRequest answers are the
\* class itself (return http.HttpBadRequest), not a response made from it;
\* raise NotFound(...) for an origin that is no Location is an exception.
PostDetail(uuid, data) ==
  /\ request' = [uuid |-> uuid, data |-> data]
  /\ IF uuid \notin LOCATION_IDS
     THEN /\ resp' = Response("post_detail", uuid, HttpNotFound, "NotFound")
          /\ calls' = << >>
          /\ disk' = disk
     ELSE IF ~({"origin_location", "pipeline", "files"} \subseteq DOMAIN data)
     THEN /\ resp' = Response("post_detail", uuid, HttpBadRequest, "HttpBadRequest")
          /\ calls' = << >>
          /\ disk' = disk
     ELSE IF data.origin_location \notin LOCATION_IDS
     THEN /\ resp' = Response("post_detail", uuid, HttpServerError, "exception")
          /\ calls' = << >>
          /\ disk' = disk
     ELSE LET r == MoveFiles(data.files, data.origin_location, uuid)
          IN  /\ calls' = r.calls
              /\ disk' = disk \cup MovedPaths(r.calls)
              /\ resp' = IF r.returned = "moved"
                         THEN Response("post_detail", uuid, HttpOk, "moved")
                         ELSE Response("post_detail", uuid, HttpBadRequest,
                                       "HttpBadRequest")
  /\ UNCHANGED <<packages, events, tempDirs, proc, replicas, spaces, protocolSpaces>>

\* ---------------------------------------------------------------- browse
\* The segments of a path parameter: a name, the parent directory, and a
\* name at the root of the filesystem.
SUBDIR == <<"s","u","b">>
PARENT == <<".",".">>
ETC == <<"e","t","c">>
\* The values of the path parameter: relative or absolute (a leading "/"),
\* with up to MaxSegments segments. No parameter is the empty relative path.
BROWSE_PATHS ==
  { [absolute |-> a, parts |-> p] :
      a \in BOOLEAN,
      p \in UNION {[1..k -> {SUBDIR, PARENT, ETC}] : k \in 0..MaxSegments} }

\* os.path.join(base, path): an absolute path replaces the base; the
\* segments are kept as they are.
PathJoin(base, path) == IF path.absolute THEN path.parts ELSE base \o path.parts

\* The directory a path names for the filesystem: each ".." takes back
\* the segment before it (at the root, nothing).
RECURSIVE Resolved(_)
Resolved(parts) ==
  IF parts = << >> THEN << >>
  ELSE LET before == Resolved(SubSeq(parts, 1, Len(parts) - 1))
           last == parts[Len(parts)]
       IN  IF last # PARENT THEN Append(before, last)
           ELSE IF before = << >> THEN << >>
           ELSE SubSeq(before, 1, Len(before) - 1)

\* The answer of a browse request: the wrapper's refusal, or the listing
\* get_objects gives for the joined path.
BrowseStep(op, method, uuid, known, base, path) ==
  /\ request' = [uuid |-> uuid, data |-> path]
  /\ IF method # "get"
     THEN /\ resp' = WrapperResponse(op, uuid, "MethodNotAllowed")
          /\ calls' = << >>
     ELSE IF ~known
     THEN /\ resp' = WrapperResponse(op, uuid, "NotFound")
          /\ calls' = << >>
     ELSE /\ resp' = Response(op, uuid, HttpOk, "entries")
          /\ calls' = << Call("get_objects", PathJoin(base, path)) >>
  /\ UNCHANGED <<packages, events, disk, tempDirs, proc, replicas,
                 spaces, protocolSpaces>>

\* SpaceResource.browse: the path parameter joined to the Space's path.
SpaceBrowse(method, uuid, path) ==
  BrowseStep("space_browse", method, uuid, uuid \in DOMAIN SPACES,
             IF uuid \in DOMAIN SPACES THEN SPACES[uuid].path ELSE << >>, path)

\* LocationResource.browse: the path parameter (decode_path leaves it as
\* it is) joined to the Location's full path.
LocationBrowse(method, uuid, path) ==
  BrowseStep("location_browse", method, uuid, uuid \in LOCATION_IDS,
             IF uuid \in LOCATION_IDS THEN LocationFullPath(uuid) ELSE << >>, path)

\* ------------------------------------------------------ specifications
\* Intake and the pointer file, every pairing of type and location.
NextIntake ==
  \/ \E uuid \in UUIDS, package_type \in PACKAGE_TYPES, loc \in LOCATION_IDS,
        origin \in ORIGINS, move_ok \in BOOLEAN :
        ObjCreate(uuid, package_type, loc, origin, move_ok)
  \/ \E method \in METHODS, uuid \in UUIDS : PointerFileRequest(method, uuid)

SpecIntake == Init /\ [][NextIntake]_vars

\* The single compressed file of the origins.
ORIGIN_7Z == [name |-> NAME_7Z, is_dir |-> FALSE]

\* The deletion workflow, one request at a time, over packages of every
\* type sent to the AIP store.
Next ==
  \/ \E uuid \in UUIDS, package_type \in PACKAGE_TYPES, move_ok \in BOOLEAN :
        ObjCreate(uuid, package_type, "as_fs", ORIGIN_7Z, move_ok)
  \/ \E method \in METHODS, uuid \in UUIDS, body \in BODIES,
        pipeline \in PIPELINE_VALUES :
        DeleteAipRequest(method, uuid, body, pipeline)
  \/ \E i \in 1..MaxEvents : Approve(i)
  \/ \E i \in 1..MaxEvents : Reject(i)
  \/ \E uuid \in UUIDS : Verify(uuid)

Spec == Init /\ [][Next]_vars

\* Two deletion requests whose steps interleave.
NextConcurrent ==
  \/ \E uuid \in UUIDS, package_type \in PACKAGE_TYPES, move_ok \in BOOLEAN :
        ObjCreate(uuid, package_type, "as_fs", ORIGIN_7Z, move_ok)
  \/ \E p \in PROCS, method \in METHODS, uuid \in UUIDS, body \in BODIES,
        pipeline \in PIPELINE_VALUES :
        DeleteBegin(p, method, uuid, body, pipeline)
  \/ \E p \in PROCS : DeleteCount(p)
  \/ \E p \in PROCS : DeleteSaveEvent(p)
  \/ \E p \in PROCS : DeleteSavePackage(p)

SpecConcurrent == Init /\ [][NextConcurrent]_vars

\* Downloads and extractions of stored packages.
NextDownload ==
  \/ \E uuid \in UUIDS, package_type \in PACKAGE_TYPES,
        loc \in {"as_fs", "as_lockss"}, origin \in ORIGINS :
        ObjCreate(uuid, package_type, loc, origin, TRUE)
  \/ \E method \in METHODS, uuid \in UUIDS : DownloadRequest(method, uuid)
  \/ \E method \in METHODS, uuid \in UUIDS,
        relative_path_to_file \in RELATIVE_PATHS :
        ExtractFileRequest(method, uuid, relative_path_to_file)

SpecDownload == Init /\ [][NextDownload]_vars

\* The fixity check of stored AIPs, over every manifest and set of files.
NextFixity ==
  \/ \E uuid \in UUIDS, origin \in ORIGINS :
        ObjCreate(uuid, AIP, "as_fs", origin, TRUE)
  \/ \E method \in METHODS, uuid \in UUIDS, manifest \in MANIFESTS,
        files \in FILE_TABLES, order \in FILE_ORDERS :
        CheckFixityRequest(method, uuid, manifest, files, order)

SpecFixity == Init /\ [][NextFixity]_vars

\* Intake into the AIP and DIP stores, followed by the replication of the
\* stored AIPs.
NextReplication ==
  \/ \E uuid \in UUIDS, package_type \in {AIP, DIP}, loc \in {"as_fs", "ds_fs"},
        origin \in ORIGINS, move_ok \in BOOLEAN :
        ObjCreate(uuid, package_type, loc, origin, move_ok)
  \/ \E uuid \in UUIDS, target \in RP_LOCATION_IDS, copy_ok \in BOOLEAN :
        Replicate(uuid, target, copy_ok)

SpecReplication == Init /\ [][NextReplication]_vars

\* The creation of Spaces and the reading of their detail.
NextSpace ==
  \/ \E data \in SPACE_REQUESTS, form_ok \in BOOLEAN : SpaceObjCreate(data, form_ok)
  \/ \E key \in 1..MaxSpaces : SpaceDehydrate(key)

SpecSpace == Init /\ [][NextSpace]_vars

\* The endpoints behind the wrapper: one with required fields (delete_aip)
\* and one without (pointer_file), over packages of every type.
NextEndpoint ==
  \/ \E uuid \in UUIDS, package_type \in PACKAGE_TYPES :
        ObjCreate(uuid, package_type, "as_fs", ORIGIN_7Z, TRUE)
  \/ \E method \in METHODS, uuid \in UUIDS, body \in BODIES,
        pipeline \in PIPELINE_VALUES :
        DeleteAipRequest(method, uuid, body, pipeline)
  \/ \E method \in METHODS, uuid \in UUIDS : PointerFileRequest(method, uuid)

SpecEndpoint == Init /\ [][NextEndpoint]_vars

\* The move of files into the DIP store or into a Location that is none.
NextMove ==
  \E uuid \in {"ds_fs", NO_LOCATION}, data \in MOVE_BODIES : PostDetail(uuid, data)

SpecMove == Init /\ [][NextMove]_vars

\* The browsing of Spaces and Locations, with every path parameter.
NextBrowse ==
  \/ \E method \in METHODS, uuid \in DOMAIN SPACES \cup {NO_LOCATION},
        path \in BROWSE_PATHS : SpaceBrowse(method, uuid, path)
  \/ \E method \in METHODS, uuid \in LOCATION_IDS \cup {NO_LOCATION},
        path \in BROWSE_PATHS : LocationBrowse(method, uuid, path)

SpecBrowse == Init /\ [][NextBrowse]_vars

\* ------------------------------------------------------------ the claims
\* The Submitted delete events of a package.
SubmittedEvents(uuid) ==
  {i \in 1..Len(events) : /\ events[i].package = uuid
                          /\ events[i].event_type = EVENT_DELETE
                          /\ events[i].status = SUBMITTED}

\* A deletion request that got as far as looking at the events.
ReachedEvents(r) ==
  r.op = "delete_aip_request" /\ r.kind \in {"created", "duplicate"}

\* C1: two concurrent deletion requests on the same deletable package, once
\* both have been answered, have left exactly one Submitted delete event for
\* it, and one was answered 'created' and the other 'already exists'.
C1_ConcurrentRequestsOneSubmitted ==
  \A p, q \in PROCS :
    ( /\ p # q
      /\ proc[p].pc = "done" /\ proc[q].pc = "done"
      /\ proc[p].uuid = proc[q].uuid
      /\ ReachedEvents(proc[p].resp) /\ ReachedEvents(proc[q].resp) )
    => /\ Cardinality(SubmittedEvents(proc[p].uuid)) = 1
       /\ {proc[p].resp.code, proc[q].resp.code} = {HttpAccepted, HttpOk}

\* C2: served one at a time, deletion requests, approvals and rejections
\* never leave a package with more than one Submitted delete event.
C2_AtMostOneSubmitted ==
  \A uuid \in UUIDS : Cardinality(SubmittedEvents(uuid)) <= 1

\* A package was asked to be deleted again after a rejection, and the other
\* package has an outstanding request of its own.
C2_Witness ==
  /\ Len(events) = 2
  /\ \E i, j \in 1..Len(events) :
       /\ events[i].status = SUBMITTED /\ events[j].status = SUBMITTED
       /\ events[i].package # events[j].package
  /\ resp.kind = "created"

\* C3: a deletion request on a package that has a Submitted delete event
\* changes neither the events nor the packages, is never answered 'created'
\* (202) and, when it gets to the events, is answered 'already exists'
\* (200), which is not the answer of a created request.
C3_DuplicateRequestIsNoOp ==
  [][ \A uuid \in DOMAIN packages :
        ( /\ SubmittedEvents(uuid) # {}
          /\ resp'.op = "delete_aip_request"
          /\ resp'.uuid = uuid )
        => /\ events' = events
           /\ packages' = packages
           /\ resp'.code # HttpAccepted
           /\ resp'.kind \notin {"MethodNotAllowed", "NotFound", "BadRequest",
                                 "NotDeletable", "exception"}
                => (resp'.kind = "duplicate" /\ resp'.code = HttpOk)
           /\ HttpOk # HttpAccepted ]_vars

\* The last request was answered 'already exists' for a package that keeps
\* its one Submitted event and its status DeletionRequested.
C3_Witness ==
  /\ resp.op = "delete_aip_request"
  /\ resp.kind = "duplicate"
  /\ resp.code = HttpOk
  /\ Cardinality(SubmittedEvents(resp.uuid)) = 1
  /\ packages[resp.uuid].status = DEL_REQ

\* C4: a created deletion request records in its Event the status the
\* package had just before and sets the package to DeletionRequested; the
\* recorded status never changes; rejecting the event gives the package
\* that recorded status back.
C4_RequestThenRejectRestores ==
  [][ /\ Len(events') = Len(events) + 1 =>
           LET e == events'[Len(events')]
           IN  /\ e.status = SUBMITTED
               /\ e.store_data = packages[e.package].status
               /\ packages'[e.package].status = DEL_REQ
      /\ \A i \in 1..Len(events) :
           /\ i \in 1..Len(events')
           /\ events'[i].store_data = events[i].store_data
           /\ events'[i].package = events[i].package
           /\ (events[i].status = SUBMITTED /\ events'[i].status = REJECTED)
                => packages'[events[i].package].status = events[i].store_data
    ]_vars

\* A request on a Verified package was rejected and the package is Verified
\* again.
C4_Witness ==
  /\ resp.op = "reject"
  /\ packages[resp.uuid].status = VERIFIED
  /\ \E i \in 1..Len(events) :
       /\ events[i].package = resp.uuid
       /\ events[i].status = REJECTED
       /\ events[i].store_data = VERIFIED

\* C5: Deleted and Fail are terminal: no step changes the status of a
\* package whose status is Deleted or Fail.
C5_TerminalStatusesStay ==
  [][ \A uuid \in DOMAIN packages :
        packages[uuid].status \in {DELETED, FAIL}
        => /\ uuid \in DOMAIN packages'
           /\ packages'[uuid].status = packages[uuid].status ]_vars

\* The pairings of package type and location purpose that intake allows.
AllowedPairing(package_type, purpose) ==
  \/ package_type \in {AIP, AIC, DIP} /\ purpose \in {AIP_STORAGE, DIP_STORAGE}
  \/ package_type = TRANSFER /\ purpose = BACKLOG

\* C6: intake of a package whose type and location purpose do not pair is
\* answered InvalidPairing; an AIP sent to an AIP-Storage location whose
\* intake is answered 'created' has the status Uploaded.
C6_InvalidPairingFails ==
  (resp.op = "obj_create" /\ resp.uuid \in DOMAIN packages) =>
    LET row == packages[resp.uuid]
    IN  IF AllowedPairing(row.package_type,
                          LOCATIONS[row.current_location].purpose)
        THEN resp.kind = "created" => row.status = UPLOADED
        ELSE resp.kind = "InvalidPairing"

\* C7: when the move of an intake fails, no Package row of that identifier
\* exists afterwards.
C7_FailedMoveLeavesNoRecord ==
  (resp.op = "obj_create" /\ resp.kind = "exception")
    => resp.uuid \notin DOMAIN packages

\* The k-th of the 32 hexadecimal digits of a UUID in its canonical form
\* 8-4-4-4-12.
HexDigit(uuid, k) ==
  uuid[k + (IF k > 8 THEN 1 ELSE 0) + (IF k > 12 THEN 1 ELSE 0)
         + (IF k > 16 THEN 1 ELSE 0) + (IF k > 20 THEN 1 ELSE 0)]

\* C8: the full path of a stored package is its location's path, then 8
\* components of 4 characters that are the UUID's 32 hexadecimal digits in
\* order, then the original name; for the two packages of the integration
\* tests the 8 components are the ones the tests expect.
C8_ShardedFullPath ==
  \A uuid \in DOMAIN packages :
    packages[uuid].status = UPLOADED =>
      LET row == packages[uuid]
          full == PackageFullPath(row)
          n == Len(LocationFullPath(row.current_location))
      IN  /\ Len(full) = n + 9
          /\ SubSeq(full, 1, n) = LocationFullPath(row.current_location)
          /\ \A k \in 1..8 :
               /\ Len(full[n + k]) = 4
               /\ \A j \in 1..4 : full[n + k][j] = HexDigit(uuid, 4 * (k - 1) + j)
          /\ full[n + 9] = (IF row.is_dir THEN NAME_DIR ELSE NAME_7Z)
          /\ uuid = UUID_COMPRESSED
               => SubSeq(full, n + 1, n + 8) = EXPECTED_COMPRESSED_SHARDS
          /\ uuid = UUID_UNCOMPRESSED
               => SubSeq(full, n + 1, n + 8) = EXPECTED_UNCOMPRESSED_SHARDS
          /\ full \in disk

\* The two packages of the tests are stored as the tests store them: the
\* first as a single file, the second as a directory, in the AIP store.
C8_Witness ==
  /\ DOMAIN packages = UUIDS
  /\ packages[UUID_COMPRESSED].status = UPLOADED
  /\ ~packages[UUID_COMPRESSED].is_dir
  /\ packages[UUID_COMPRESSED].current_location = "as_fs"
  /\ packages[UUID_UNCOMPRESSED].status = UPLOADED
  /\ packages[UUID_UNCOMPRESSED].is_dir
  /\ packages[UUID_UNCOMPRESSED].current_location = "as_fs"

\* C9: a pointer-file request for a stored package is answered with the
\* file (200) when the package is a single compressed file and with
\* NotFound (404) when it is a directory; it is never an internal error.
C9_PointerFileByStorageForm ==
  ( /\ resp.op = "pointer_file_request"
    /\ resp.kind # "MethodNotAllowed"
    /\ resp.uuid \in DOMAIN packages )
  => /\ resp.code # HttpServerError
     /\ packages[resp.uuid].status = UPLOADED
          => resp.code = (IF packages[resp.uuid].is_dir THEN HttpNotFound
                          ELSE HttpOk)

\* The pointer file of a stored directory package was asked for and the
\* answer was NotFound, with a stored single-file package beside it.
C9_Witness ==
  /\ resp.op = "pointer_file_request"
  /\ resp.code = HttpNotFound
  /\ resp.uuid \in DOMAIN packages
  /\ packages[resp.uuid].status = UPLOADED
  /\ packages[resp.uuid].is_dir
  /\ \E other \in DOMAIN packages :
       packages[other].status = UPLOADED /\ ~packages[other].is_dir

\* C10: once a request has ended, no temporary directory that it created
\* remains. Every state of the specification lies between two requests.
C10_NoTempDirOutlivesRequest == tempDirs = {}

\* C11: a download request that reaches the handler first asks for the
\* download path; it makes the compressed copy only when the Space does not
\* support chunks (get_download_path raised the storage error), and never
\* otherwise; either way it streams one file, and neither the stored files
\* nor the Package rows change.
CallOps(cs) == [i \in 1..Len(cs) |-> cs[i].op]

C11_DownloadPathThenFallback ==
  [][ \A method \in METHODS, uuid \in UUIDS :
        ( /\ DownloadRequest(method, uuid)
          /\ method = "get"
          /\ uuid \in DOMAIN packages )
        => /\ CallOps(calls') =
                IF SPACES[LOCATIONS[packages[uuid].current_location].space].chunked
                THEN << "get_download_path", "download_file_stream" >>
                ELSE << "get_download_path", "compress_package",
                        "download_file_stream" >>
           /\ disk' = disk
           /\ packages' = packages ]_vars

\* A download served from the compressed copy after the fallback.
C11_Witness ==
  /\ resp.op = "download_request"
  /\ resp.code = HttpOk
  /\ CallOps(calls) = << "get_download_path", "compress_package",
                         "download_file_stream" >>
  /\ calls[3].path = COMPRESSED_COPY

\* The paths of a bag that are missing, changed and untracked.
MissingPaths(manifest, files) ==
  {f \in FIXITY_FILES : manifest[f] # ABSENT /\ files[f] = ABSENT}

ChangedPaths(manifest, files) ==
  {f \in FIXITY_FILES : /\ manifest[f] # ABSENT
                        /\ files[f] # ABSENT
                        /\ files[f] # manifest[f]}

UntrackedPaths(manifest, files) ==
  {f \in FIXITY_FILES : manifest[f] = ABSENT /\ files[f] # ABSENT}

\* The paths of the entries of a list of the response, in order.
EntryPaths(entries) == [i \in 1..Len(entries) |-> entries[i].path]

\* This step is a fixity request that reached the handler, for a bag with
\* this manifest and these files.
FixityServed(manifest, files, order) ==
  /\ resp'.op = "check_fixity_request"
  /\ resp'.kind = "fixity"
  /\ CheckFixityRequest("get", resp'.uuid, manifest, files, order)

\* C12: the fixity response says success exactly when no path of the bag is
\* missing and none is changed; a bag whose only discrepancies are
\* untracked files gets success with those files in the untracked list.
C12_SuccessIffNoMissingNoChanged ==
  [][ \A manifest \in MANIFESTS, files \in FILE_TABLES, order \in FILE_ORDERS :
        FixityServed(manifest, files, order)
        => /\ resp'.body.success
                <=> /\ MissingPaths(manifest, files) = {}
                    /\ ChangedPaths(manifest, files) = {}
           /\ ( /\ MissingPaths(manifest, files) = {}
                /\ ChangedPaths(manifest, files) = {}
                /\ UntrackedPaths(manifest, files) # {} )
              => /\ resp'.body.success
                 /\ EntryPaths(resp'.body.failures.files.untracked)
                      = SelectSeq(order,
                                  LAMBDA f : f \in UntrackedPaths(manifest, files)) ]_vars

\* A successful check that lists an untracked file.
C12_Witness ==
  /\ resp.op = "check_fixity_request"
  /\ resp.kind = "fixity"
  /\ resp.body.success
  /\ resp.body.failures.files.untracked # << >>
  /\ resp.body.failures.files.missing = << >>
  /\ resp.body.failures.files.changed = << >>

\* C13: the fixity response holds the three lists whether the check
\* succeeded or not; the missing, changed and untracked paths of the bag
\* are each in their own list and in no other, in the order the check
\* visited them; a changed entry carries the expected digest, the digest
\* found and the algorithm; no list holds anything else.
C13_ThreeListsByKind ==
  [][ \A manifest \in MANIFESTS, files \in FILE_TABLES, order \in FILE_ORDERS :
        FixityServed(manifest, files, order)
        => LET lists == resp'.body.failures.files
               InOrder(S) == SelectSeq(order, LAMBDA f : f \in S)
           IN  /\ DOMAIN lists = {"missing", "changed", "untracked"}
               /\ EntryPaths(lists.missing) = InOrder(MissingPaths(manifest, files))
               /\ EntryPaths(lists.changed) = InOrder(ChangedPaths(manifest, files))
               /\ EntryPaths(lists.untracked)
                    = InOrder(UntrackedPaths(manifest, files))
               /\ \A i \in 1..Len(lists.changed) :
                    /\ lists.changed[i].expected = manifest[lists.changed[i].path]
                    /\ lists.changed[i].actual = files[lists.changed[i].path]
                    /\ lists.changed[i].hash_type = HASH_TYPE ]_vars

\* A failed check whose response lists a changed and an untracked file.
C13_Witness ==
  /\ resp.op = "check_fixity_request"
  /\ resp.kind = "fixity"
  /\ ~resp.body.success
  /\ Len(resp.body.failures.files.changed) = 1
  /\ resp.body.failures.files.changed[1].expected = "X"
  /\ resp.body.failures.files.changed[1].actual = "Y"
  /\ Len(resp.body.failures.files.untracked) = 1

\* The files of a package below the root of a Location, relative to it.
PackageFilesUnder(root, row) ==
  { SubSeq(p, Len(root) + 1, Len(p)) :
      p \in { q \in disk :
                /\ Len(q) >= Len(root) + Len(row.current_path)
                /\ SubSeq(q, 1, Len(root) + Len(row.current_path))
                     = root \o row.current_path } }

\* C14: whatever became of the copies to its replicators, a replicated
\* package is still stored (status Uploaded, its files in place, the
\* answer of the store unchanged); a replicator that has not been tried is
\* still open to a copy when another one failed; and a replicator whose
\* copy succeeded holds the same files at the same sharded path as the
\* primary Location.
C14_ReplicaFailureIsIsolated ==
  \A uuid \in DOMAIN packages, target \in RP_LOCATION_IDS :
    << uuid, target >> \in DOMAIN replicas
    => LET row == packages[uuid]
           primary == PackageFilesUnder(LocationFullPath(row.current_location), row)
       IN  /\ row.status = UPLOADED
           /\ row.current_path \in primary
           /\ \A other \in REPLICATORS[row.current_location] \ {target} :
                << uuid, other >> \notin DOMAIN replicas
                => ENABLED Replicate(uuid, other, TRUE)
           /\ replicas[<< uuid, target >>] = REPLICA_OK
                => PackageFilesUnder(RP_LOCATIONS[target], row) = primary

\* One replicator failed, the other holds the copy, the primary is stored.
C14_Witness ==
  /\ << UUID_UNCOMPRESSED, "rp_s3" >> \in DOMAIN replicas
  /\ << UUID_UNCOMPRESSED, "rp_fs" >> \in DOMAIN replicas
  /\ replicas[<< UUID_UNCOMPRESSED, "rp_s3" >>] = REPLICA_FAILED
  /\ replicas[<< UUID_UNCOMPRESSED, "rp_fs" >>] = REPLICA_OK
  /\ packages[UUID_UNCOMPRESSED].status = UPLOADED
  /\ RP_LOCATIONS["rp_fs"] \o packages[UUID_UNCOMPRESSED].current_path \in disk

\* The protocol records of a Space.
RecordsOf(records, key) == {i \in 1..Len(records) : records[i].space = key}

\* The data of a creation request name a declared protocol and hold all
\* the fields it declares.
WellFormed(data) ==
  /\ "access_protocol" \in DOMAIN data
  /\ data["access_protocol"] \in {"S3", "FS"}
  /\ (data["access_protocol"] = "S3") => (S3_FIELDS \subseteq DOMAIN data)

C16_MissingMemberIsMemberNotFound ==
  (resp.op = "extract_file_request" /\ calls # << >>)
    => /\ resp.kind \in {"stream", "MemberNotFound"}
       /\ \A i \in 1..Len(calls) : calls[i].path # << >>

\* What a request to a wrapped endpoint must meet when its method is this
\* one, its object this one and its body holds these fields: the wrong
\* method is refused first, then the missing object (NotFound), then the
\* missing fields (BadRequest), each without a change to the Package or
\* Event table; and any other answer, or any change, means the method was
\* right, the object exists and the fields are all there.
WrapperOrder(method, expected_method, uuid, body, required_fields) ==
  LET refused == resp'.kind \in {"MethodNotAllowed", "NotFound", "BadRequest"}
                   /\ events' = events
                   /\ packages' = packages
  IN  /\ method # expected_method
           => /\ resp'.kind = "MethodNotAllowed"
              /\ resp'.code = HttpMethodNotAllowed
              /\ refused
      /\ (method = expected_method /\ uuid \notin DOMAIN packages)
           => /\ resp'.kind = "NotFound"
              /\ resp'.code = HttpNotFound
              /\ refused
      /\ ( /\ method = expected_method
           /\ uuid \in DOMAIN packages
           /\ ~(required_fields \subseteq body) )
           => /\ resp'.kind = "BadRequest"
              /\ resp'.code = HttpBadRequest
              /\ refused
      /\ ( /\ method = expected_method
           /\ uuid \in DOMAIN packages
           /\ required_fields \subseteq body )
           => resp'.kind \notin {"MethodNotAllowed", "BadRequest"}

\* C17: the wrapper checks the method, then looks the object up, then
\* checks the required fields of the body, and calls the handler only
\* when all three pass; a request it refuses changes no Package and no
\* Event.
C17_WrapperChecksInOrder ==
  [][ /\ \A method \in METHODS, uuid \in UUIDS, body \in BODIES,
            pipeline \in PIPELINE_VALUES :
           DeleteAipRequest(method, uuid, body, pipeline)
           => WrapperOrder(method, "post", uuid, body, REQUIRED_DELETE_FIELDS)
      /\ \A method \in METHODS, uuid \in UUIDS :
           PointerFileRequest(method, uuid)
           => WrapperOrder(method, "get", uuid, {}, {}) ]_vars

\* A deletion request for a stored package refused for a missing field,
\* with a deletion already requested for the other package.
C17_Witness ==
  /\ resp.op = "delete_aip_request"
  /\ resp.kind = "BadRequest"
  /\ resp.uuid \in DOMAIN packages
  /\ Len(events) = 1
  /\ events[1].package # resp.uuid

\* C18: a deletion request that passed the wrapper for a package whose type
\* cannot be deleted is answered MethodNotAllowed, creates no Event and
\* changes no Package; and after every step the packages with a delete
\* Event, and those whose status is DeletionRequested, are of a type that
\* can be deleted.
C18_OnlyDeletableTypesAreRequested ==
  [][ /\ \A method \in METHODS, uuid \in UUIDS, body \in BODIES,
            pipeline \in PIPELINE_VALUES :
           ( /\ DeleteAipRequest(method, uuid, body, pipeline)
             /\ method = "post"
             /\ uuid \in DOMAIN packages
             /\ REQUIRED_DELETE_FIELDS \subseteq body
             /\ packages[uuid].package_type \notin {AIP, AIC, TRANSFER} )
           => /\ resp'.code = HttpMethodNotAllowed
              /\ events' = events
              /\ packages' = packages
      /\ \A i \in 1..Len(events') :
           events'[i].event_type = EVENT_DELETE
           => packages'[events'[i].package].package_type \in {AIP, AIC, TRANSFER}
      /\ \A uuid \in DOMAIN packages' :
           packages'[uuid].status = DEL_REQ
           => packages'[uuid].package_type \in {AIP, AIC, TRANSFER} ]_vars

\* A DIP whose deletion was refused while the other package, an AIP, has
\* its deletion requested.
C18_Witness ==
  /\ resp.op = "delete_aip_request"
  /\ resp.code = HttpMethodNotAllowed
  /\ resp.uuid \in DOMAIN packages
  /\ packages[resp.uuid].package_type = DIP
  /\ packages[resp.uuid].status = UPLOADED
  /\ Len(events) = 1
  /\ events[1].package # resp.uuid

\* An entry of 'files' that has a source and a destination.
HasBothPaths(sip_file) == sip_file.source # << >> /\ sip_file.destination # << >>

\* The number of entries before the first that lacks a path.
LeadingEntries(files) ==
  CHOOSE k \in 0..Len(files) :
    /\ \A i \in 1..k : HasBothPaths(files[i])
    /\ k < Len(files) => ~HasBothPaths(files[k + 1])

\* The move request got as far as the loop over 'files'.
ReachedFiles ==
  /\ resp.op = "post_detail"
  /\ request.uuid \in LOCATION_IDS
  /\ DOMAIN request.data = {"origin_location", "pipeline", "files"}
  /\ request.data.origin_location \in LOCATION_IDS

\* C19: a move request makes its calls entry by entry, in the order of
\* the list: for each entry before the first that lacks a source or a
\* destination, move_to_storage_service and post_move_to_storage_service
\* on the origin Space, then move_from_storage_service and
\* post_move_from_storage_service on the destination Space, all four
\* before the calls of the next entry; nothing is called for the lacking
\* entry or any after it, the answer is then HttpBadRequest, and the
\* files moved before it stay where they were put.
C19_EntriesMovedInOrderUntilBadEntry ==
  ReachedFiles
  => LET files == request.data.files
         k == LeadingEntries(files)
         origin == LOCATIONS[request.data.origin_location]
         destination == LOCATIONS[request.uuid]
     IN  /\ Len(calls) = 4 * k
         /\ \A i \in 1..k :
              /\ calls[4 * i - 3].op = "move_to_storage_service"
              /\ calls[4 * i - 3].space = origin.space
              /\ calls[4 * i - 3].source_path = origin.relative_path \o files[i].source
              /\ calls[4 * i - 3].destination_path
                   = destination.relative_path \o files[i].destination
              /\ calls[4 * i - 2].op = "post_move_to_storage_service"
              /\ calls[4 * i - 2].space = origin.space
              /\ calls[4 * i - 1].op = "move_from_storage_service"
              /\ calls[4 * i - 1].space = destination.space
              /\ calls[4 * i - 1].destination_path
                   = destination.relative_path \o files[i].destination
              /\ calls[4 * i].op = "post_move_from_storage_service"
              /\ calls[4 * i].space = destination.space
              /\ SPACES[destination.space].path \o destination.relative_path
                   \o files[i].destination \in disk
         /\ resp.kind = IF k < Len(files) THEN "HttpBadRequest" ELSE "moved"

\* A request of three entries, the second without a destination: the first
\* was moved and is in place, the third was not touched.
C19_Witness ==
  /\ ReachedFiles
  /\ Len(request.data.files) = 3
  /\ HasBothPaths(request.data.files[1])
  /\ ~HasBothPaths(request.data.files[2])
  /\ HasBothPaths(request.data.files[3])
  /\ request.data.files[3] # request.data.files[1]
  /\ Len(calls) = 4
  /\ resp.kind = "HttpBadRequest"

\* The root a browse request is confined to: the Space's path or the
\* Location's full path.
BrowseRoot ==
  IF resp.op = "space_browse" THEN SPACES[request.uuid].path
  ELSE SPACES[LOCATIONS[request.uuid].space].path
         \o LOCATIONS[request.uuid].relative_path

\* C20: the directory a browse request lists, once the filesystem has
\* resolved its ".." segments, is the root of the Space or Location or
\* lies below it, whatever the path parameter.
C20_BrowseStaysInside ==
  (resp.op \in {"space_browse", "location_browse"} /\ resp.kind = "entries")
  => LET listed == Resolved(calls[1].path)
     IN  /\ Len(listed) >= Len(BrowseRoot)
         /\ SubSeq(listed, 1, Len(BrowseRoot)) = BrowseRoot

====
